---- MODULE Spec2Model ----
(***************************************************************************)
(* Model of the pending-review notifier: the domain objects of             *)
(* src_graphql/github_domain.py (Assignee, PullRequest) and the services   *)
(* of src_graphql/github_services.py (init_service, check_token,           *)
(* get_prs_assigned_to_reviewers, __process_activity,                      *)
(* update_assignee_timestamp, create_discussion_comment).                  *)
(*                                                                         *)
(* Time is counted in ticks; an hour is TicksPerHour ticks.  A datetime is *)
(* its number of ticks since DEFAULT_TIMESTAMP, a created_at string is the *)
(* record [hour, tick] that parser.parse turns into a datetime.            *)
(***************************************************************************)
EXTENDS Integers, Sequences, FiniteSets, TLC

\* ------------------------------------------------------------------ bounds
TicksPerHour == 2
MaxWaitHours == 1
MaxTick == 1
MaxPrs == 2
MaxEvents == 2
MaxCalls == 2
MaxDays == 2

\* --------------------------------------------------------------- constants
DEFAULT_TIMESTAMP == 0

None == "None"

Logins == {"alice", "bob"}
EventLogins == Logins \cup {"carol"}
Tokens == {"ghp_A", "ghp_B"}
PrNumbers == {7, 42}
FirstNumber == CHOOSE n \in PrNumbers : \A m \in PrNumbers : n <= m
EventKinds == {"assigned", "unassigned"}

\* The hour (since DEFAULT_TIMESTAMP) in which the calls are made: the
\* sentinel lies further in the past than any threshold the caller passes.
RunHour == MaxWaitHours + 1

CreatedAts == {[hour |-> RunHour - 1, tick |-> t] : t \in {0, 1}}
ClockValues == {RunHour * TicksPerHour + d : d \in 0..MaxTick}
WaitHours == 0..MaxWaitHours

Max(S) == CHOOSE x \in S : \A y \in S : y <= x

Range(s) == {s[i] : i \in DOMAIN s}

\* ------------------------------------------------------- the API's records
\* the assignees of a pull request: distinct logins
AssigneeLists ==
    {<<>>} \cup {<<[login |-> a]>> : a \in Logins}
           \cup {<<[login |-> "alice"], [login |-> "bob"]>>}

\* the authors of the pull requests: one who can be an assignee of the pull
\* request too, and one who is an assignee of none
Authors == {"alice", "carol"}

PrRecords ==
    {[html_url |-> <<"pull", n>>, number |-> n, title |-> "title",
      user |-> [login |-> u], assignees |-> al] :
        n \in PrNumbers, u \in Authors, al \in AssigneeLists}

Events ==
    {[event |-> k, assignee |-> [login |-> l], created_at |-> c] :
        k \in EventKinds, l \in EventLogins, c \in CreatedAts}

SeqsUpTo(S, n) == UNION {[1..m -> S] : m \in 0..n}

\* the events the timeline of a pull request of the listing holds
TimelineEvents ==
    {e \in Events : /\ e.assignee.login \in Logins
                    /\ e.event # "assigned" => e.created_at.tick = 1}

\* the lists of pull requests a call can meet when it holds n already: the
\* numbers being interchangeable, the first pull request of a call is
\* FirstNumber and a later one has the same number or another
PrLists(n, max) ==
    {l \in SeqsUpTo(PrRecords, max) : n = 0 /\ l # <<>> => l[1].number = FirstNumber}


\* ------------------------------------------------------ github_domain.py
\* Assignee.__init__
Assignee(name) == [name |-> name, timestamp |-> DEFAULT_TIMESTAMP]

\* set_timestamp taking the later of the two values itself
set_timestamp_max(assignee, timestamp) ==
    [assignee EXCEPT !.timestamp = IF timestamp > @ THEN timestamp ELSE @]

\* Assignee.set_timestamp
set_timestamp(assignee, timestamp) == [assignee EXCEPT !.timestamp = timestamp]

\* a timedelta's days are whole days of HoursPerDay hours
HoursPerDay == 24

TicksPerDay == HoursPerDay * TicksPerHour

\* ', '.join(waiting_time)
RECURSIVE Join(_)
Join(waiting_time) ==
    IF waiting_time = <<>> THEN ""
    ELSE IF Len(waiting_time) = 1 THEN waiting_time[1]
    ELSE waiting_time[1] \o ", " \o Join(Tail(waiting_time))

\* get_readable_waiting_time writing "1 days" and "1 hours"
get_readable_waiting_time_plural_one(assignee, now) ==
    LET delta == now - assignee.timestamp
        days == delta \div TicksPerDay
        hours == (delta % TicksPerDay) \div TicksPerHour
        day_part == IF days # 0
                    THEN <<ToString(days) \o " day" \o (IF days >= 1 THEN "s" ELSE "")>>
                    ELSE <<>>
        hour_part == IF hours # 0
                     THEN <<ToString(hours) \o " hour" \o (IF hours >= 1 THEN "s" ELSE "")>>
                     ELSE <<>>
    IN  Join(day_part \o hour_part)

\* Assignee.get_readable_waiting_time, datetime.now being now: delta.days is
\* the floor of delta in days, delta.seconds the rest, and hours the whole
\* hours of the rest
get_readable_waiting_time(assignee, now) ==
    LET delta == now - assignee.timestamp
        days == delta \div TicksPerDay
        hours == (delta % TicksPerDay) \div TicksPerHour
        day_part == IF days # 0
                    THEN <<ToString(days) \o " day" \o (IF days > 1 THEN "s" ELSE "")>>
                    ELSE <<>>
        hour_part == IF hours # 0
                     THEN <<ToString(hours) \o " hour" \o (IF hours > 1 THEN "s" ELSE "")>>
                     ELSE <<>>
    IN  Join(day_part \o hour_part)

\* PullRequest.from_github_response
from_github_response(pr_dict) ==
    [url |-> pr_dict.html_url,
     number |-> pr_dict.number,
     title |-> pr_dict.title,
     author |-> pr_dict.user.login,
     assignees |-> [i \in DOMAIN pr_dict.assignees |->
                        Assignee(pr_dict.assignees[i].login)]]

\* is_reviewer_assigned asking for an assignee other than the author
is_reviewer_assigned_some_other(pr) ==
    \E i \in DOMAIN pr.assignees : pr.assignees[i].name # pr.author

\* PullRequest.is_reviewer_assigned
is_reviewer_assigned(pr) ==
    ~(Len(pr.assignees) = 1 /\ pr.assignees[1].name = pr.author)

\* PullRequest.get_assignee: the position of the first assignee named user,
\* 0 standing for None.
get_assignee(pr, user) ==
    LET found == {i \in DOMAIN pr.assignees : pr.assignees[i].name = user}
    IN  IF found = {} THEN 0 ELSE CHOOSE i \in found : \A j \in found : i <= j

\* ---------------------------------------------------- github_services.py
\* dateutil's parser.parse of a created_at string
ParseTime(created_at) == created_at.hour * TicksPerHour + created_at.tick

\* timedelta(hours=wait_hours)
TimeDelta(hours) == hours * TicksPerHour

\* __process_activity storing the event's time without max
__process_activity_no_max(pull_request, event) ==
    IF event.event # "assigned"
    THEN [pull_request |-> pull_request, error |-> None]
    ELSE LET assignee == get_assignee(pull_request, event.assignee.login)
             event_timestamp == ParseTime(event.created_at)
         IN  IF assignee # 0
             THEN [pull_request |->
                     [pull_request EXCEPT !.assignees[assignee] =
                        set_timestamp(@, event_timestamp)],
                   error |-> None]
             ELSE [pull_request |-> pull_request, error |-> None]

\* __process_activity without the test of line 93: set_timestamp on None
__process_activity_no_guard(pull_request, event) ==
    IF event.event # "assigned"
    THEN [pull_request |-> pull_request, error |-> None]
    ELSE LET assignee == get_assignee(pull_request, event.assignee.login)
             event_timestamp == ParseTime(event.created_at)
         IN  IF assignee # 0
             THEN [pull_request |->
                     [pull_request EXCEPT !.assignees[assignee] =
                        set_timestamp(@, Max({@.timestamp, event_timestamp}))],
                   error |-> None]
             ELSE [pull_request |-> pull_request, error |-> "AttributeError"]

\* __process_activity without the test of line 88
__process_activity_any_kind(pull_request, event) ==
    LET assignee == get_assignee(pull_request, event.assignee.login)
        event_timestamp == ParseTime(event.created_at)
    IN  IF assignee # 0
        THEN [pull_request |->
                [pull_request EXCEPT !.assignees[assignee] =
                   set_timestamp(@, Max({@.timestamp, event_timestamp}))],
              error |-> None]
        ELSE [pull_request |-> pull_request, error |-> None]

\* __process_activity taking the assignee an "unassigned" event names off the
\* pull request
__process_activity_unassign(pull_request, event) ==
    LET assignee == get_assignee(pull_request, event.assignee.login)
        event_timestamp == ParseTime(event.created_at)
    IN  IF event.event = "assigned" /\ assignee # 0
        THEN [pull_request |->
                [pull_request EXCEPT !.assignees[assignee] =
                   set_timestamp(@, Max({@.timestamp, event_timestamp}))],
              error |-> None]
        ELSE IF event.event = "unassigned" /\ assignee # 0
        THEN [pull_request |->
                [pull_request EXCEPT !.assignees =
                   SubSeq(@, 1, assignee - 1) \o SubSeq(@, assignee + 1, Len(@))],
              error |-> None]
        ELSE [pull_request |-> pull_request, error |-> None]

\* __process_activity: the pull request after the event, and the error raised
__process_activity(pull_request, event) ==
    IF event.event # "assigned"
    THEN [pull_request |-> pull_request, error |-> None]
    ELSE LET assignee == get_assignee(pull_request, event.assignee.login)
             event_timestamp == ParseTime(event.created_at)
         IN  IF assignee # 0
             THEN [pull_request |->
                     [pull_request EXCEPT !.assignees[assignee] =
                        set_timestamp(@, Max({@.timestamp, event_timestamp}))],
                   error |-> None]
             ELSE [pull_request |-> pull_request, error |-> None]

\* the loop of lines 120-121 left after its first event
ProcessEventsFirstOnly(pull_request, timeline_subset) ==
    IF timeline_subset = <<>>
    THEN [pull_request |-> pull_request, error |-> None]
    ELSE __process_activity(pull_request, Head(timeline_subset))

\* for event in timeline_subset: __process_activity(pull_request, event)
RECURSIVE ProcessEvents(_, _)
ProcessEvents(pull_request, timeline_subset) ==
    IF timeline_subset = <<>>
    THEN [pull_request |-> pull_request, error |-> None]
    ELSE LET r == __process_activity(pull_request, Head(timeline_subset))
         IN  IF r.error # None THEN r
             ELSE ProcessEvents(r.pull_request, Tail(timeline_subset))

\* the condition of lines 81-82 with > for >=
IsPendingReviewStrict(pull_request, reviewer, now, hours) ==
    LET pending_review_time == now - reviewer.timestamp
    IN  /\ reviewer.name # pull_request.author
        /\ pending_review_time > TimeDelta(hours)

\* the condition of lines 81-82 without the comparison with the author
IsPendingReviewAnyone(pull_request, reviewer, now, hours) ==
    LET pending_review_time == now - reviewer.timestamp
    IN  pending_review_time >= TimeDelta(hours)

\* the condition of lines 81-82 passing over a reviewer still at the sentinel
IsPendingReviewKnown(pull_request, reviewer, now, hours) ==
    LET pending_review_time == now - reviewer.timestamp
    IN  /\ reviewer.name # pull_request.author
        /\ reviewer.timestamp # DEFAULT_TIMESTAMP
        /\ pending_review_time >= TimeDelta(hours)

\* the condition of lines 81-82
IsPendingReview(pull_request, reviewer, now, hours) ==
    LET pending_review_time == now - reviewer.timestamp
    IN  /\ reviewer.name # pull_request.author
        /\ pending_review_time >= TimeDelta(hours)

\* the pull request put at the head of the reviewer's list
AppendTo_front(mapping, name, k) ==
    IF name \in DOMAIN mapping
    THEN [mapping EXCEPT ![name] = <<k>> \o @]
    ELSE mapping @@ (name :> <<k>>)

\* the pull request appended twice
AppendTo_twice(mapping, name, k) ==
    IF name \in DOMAIN mapping
    THEN [mapping EXCEPT ![name] = Append(Append(@, k), k)]
    ELSE mapping @@ (name :> <<k, k>>)

\* reviewer_to_assigned_prs[name].append(k) on a defaultdict(list)
AppendTo(mapping, name, k) ==
    IF name \in DOMAIN mapping
    THEN [mapping EXCEPT ![name] = Append(@, k)]
    ELSE mapping @@ (name :> <<k>>)

\* the loop of lines 78-83 looking the reviewer's list up in the defaultdict
\* before the test of lines 81-82, which makes the key
RECURSIVE FilterReviewers_touch(_, _, _, _, _, _)
FilterReviewers_touch(mapping, pull_request, k, j, nows, hours) ==
    IF j > Len(pull_request.assignees) THEN mapping
    ELSE LET reviewer == pull_request.assignees[j]
             touched == IF reviewer.name \in DOMAIN mapping THEN mapping
                        ELSE mapping @@ (reviewer.name :> <<>>)
             next == IF IsPendingReview(pull_request, reviewer, nows[j], hours)
                     THEN AppendTo(touched, reviewer.name, k)
                     ELSE touched
         IN  FilterReviewers_touch(next, pull_request, k, j + 1, nows, hours)

\* the loop of lines 78-83 over the reviewers j.. of pull request k, the
\* clock being read as nows[j] for reviewer j
RECURSIVE FilterReviewers(_, _, _, _, _, _)
FilterReviewers(mapping, pull_request, k, j, nows, hours) ==
    IF j > Len(pull_request.assignees) THEN mapping
    ELSE LET reviewer == pull_request.assignees[j]
             next == IF IsPendingReview(pull_request, reviewer, nows[j], hours)
                     THEN AppendTo(mapping, reviewer.name, k)
                     ELSE mapping
         IN  FilterReviewers(next, pull_request, k, j + 1, nows, hours)

VARIABLES
    _TOKEN,                   \* the credential, None until init_service sets it
    pc,                       \* the line the running call is at, or "idle"
    call,                     \* the entry point of the running (or last) call
    outcome,                  \* how the last call ended
    returned,                 \* <<mapping>> once a call returned one, else <<>>
    wait_hours,               \* the argument of get_prs_assigned_to_reviewers
    page_number,              \* line 55
    prs,                      \* the PullRequest objects constructed by the call
    pull_requests,            \* line 71 / pr_list: positions in prs
    pr_i,                     \* position of the loops of lines 75 and 99
    tl_page_number,           \* line 104
    reviewer_to_assigned_prs, \* line 53: name -> sequence of positions in prs
    clock,                    \* the last reading of datetime.now in the call (each
                              \* call is taken to start in hour RunHour)
    timeline,                 \* history: the "assigned" events received for tl_pr
    tl_count,                 \* history: the number of events received for tl_pr
    tl_pr,                    \* history: the position in prs timeline is about
    read_at,                  \* history: position in prs -> the readings of line 80
    last_request,             \* history: the request issued last
    pulls_page,               \* history: the page of the listing requested last
    paginated,                \* history: position in prs -> the number of times
                              \* its timeline was read to the empty page
    stale,                    \* history: the call before the running one left a
                              \* mapping with entries behind
    given,                    \* history: the token the last init_service that
                              \* returned was called with
    u_pr,                     \* unit level: the PullRequest under test
    u_calls,                  \* unit level: the calls made on it
    u_ret                     \* unit level: what the last call returned

svars == <<_TOKEN, pc, call, outcome, returned, wait_hours, page_number, prs,
           pull_requests, pr_i, tl_page_number, reviewer_to_assigned_prs, clock,
           timeline, tl_count, tl_pr, read_at, last_request, pulls_page,
           paginated, stale, given>>
uvars == <<u_pr, u_calls, u_ret>>
vars == <<svars, uvars>>

NoMapping == [n \in {} |-> <<>>]

NoRequest == [url |-> None, number |-> 0, page |-> 0,
              authorization |-> None, status |-> None]

\* the objects of a call's frame that an exception or a return releases
FrameGone ==
    /\ prs' = <<>>
    /\ pull_requests' = <<>>
    /\ pr_i' = 1
    /\ tl_page_number' = 1
    /\ timeline' = {}
    /\ tl_count' = 0
    /\ tl_pr' = 0
    /\ read_at' = <<>>
    /\ paginated' = <<>>

\* a call before its first statement
FreshLocals ==
    /\ FrameGone
    /\ page_number' = 1
    /\ reviewer_to_assigned_prs' = NoMapping
    /\ clock' = RunHour * TicksPerHour
    /\ last_request' = NoRequest
    /\ pulls_page' = 0
    /\ stale' = FALSE
    /\ returned' = <<>>
    /\ wait_hours' = 0

UnitInit ==
    /\ u_pr \in {from_github_response(r) : r \in PrRecords}
    /\ u_calls = <<>>
    /\ u_ret = None

ServiceInit ==
    /\ _TOKEN = None
    /\ pc = "idle"
    /\ call = None
    /\ outcome = None
    /\ returned = <<>>
    /\ wait_hours = 0
    /\ page_number = 1
    /\ prs = <<>>
    /\ pull_requests = <<>>
    /\ pr_i = 1
    /\ tl_page_number = 1
    /\ reviewer_to_assigned_prs = NoMapping
    /\ clock = RunHour * TicksPerHour
    /\ timeline = {}
    /\ tl_count = 0
    /\ tl_pr = 0
    /\ read_at = <<>>
    /\ last_request = NoRequest
    /\ pulls_page = 0
    /\ paginated = <<>>
    /\ stale = FALSE
    /\ given = None

\* ------------------------------------------------------------ the services
\* requests.get / requests.post with the Authorization header of lines 43, 112
Request(url, number, page, status) ==
    [url |-> url, number |-> number, page |-> page,
     authorization |-> _TOKEN, status |-> status]

\* the exception caught and what was collected so far returned
raise_for_status_partial ==
    /\ pc' = "idle"
    /\ outcome' = "http_error"
    /\ returned' = <<reviewer_to_assigned_prs>>
    /\ FrameGone
    /\ UNCHANGED <<page_number, reviewer_to_assigned_prs>>

\* response.raise_for_status() raising: the exception leaves the call and
\* nothing is returned; page_number and reviewer_to_assigned_prs are kept as
\* they were when it was raised
raise_for_status ==
    /\ pc' = "idle"
    /\ outcome' = "http_error"
    /\ returned' = <<>>
    /\ FrameGone
    /\ UNCHANGED <<page_number, reviewer_to_assigned_prs>>

\* init_service clearing the credential when it is called without a token
init_service_clears ==
    /\ pc = "idle"
    /\ call' = "init_service"
    /\ FreshLocals
    /\ pc' = "idle"
    /\ \E t \in Tokens \cup {None} :
         \/ /\ t = None
            /\ outcome' = "error"
            /\ _TOKEN' = None
            /\ given' = given
         \/ /\ t # None
            /\ outcome' = "returned"
            /\ _TOKEN' = t
            /\ given' = t
    /\ UNCHANGED uvars

\* init_service
init_service ==
    /\ pc = "idle"
    /\ call' = "init_service"
    /\ FreshLocals
    /\ pc' = "idle"
    /\ \E t \in Tokens \cup {None} :
         \/ /\ t = None
            /\ outcome' = "error"
            /\ _TOKEN' = _TOKEN
            /\ given' = given
         \/ /\ t # None
            /\ outcome' = "returned"
            /\ _TOKEN' = t
            /\ given' = t
    /\ UNCHANGED uvars

\* check_token (lines 29-35)
check_token == _TOKEN # None

\* get_prs_assigned_to_reviewers filling a mapping of the module, that line 53
\* does not make anew
get_prs_assigned_to_reviewers_shared ==
    /\ pc = "idle"
    /\ call' = "get_prs_assigned_to_reviewers"
    /\ FrameGone
    /\ page_number' = 1
    /\ reviewer_to_assigned_prs' = reviewer_to_assigned_prs
    /\ clock' = RunHour * TicksPerHour
    /\ last_request' = NoRequest
    /\ pulls_page' = 0
    /\ stale' = (reviewer_to_assigned_prs # NoMapping)
    /\ returned' = <<>>
    /\ \/ /\ ~check_token
          /\ pc' = "idle"
          /\ outcome' = "config_error"
          /\ wait_hours' = 0
       \/ /\ check_token
          /\ pc' = "list"
          /\ outcome' = "running"
          /\ \E w \in WaitHours : wait_hours' = w
    /\ UNCHANGED <<_TOKEN, given, uvars>>

\* check_token around get_prs_assigned_to_reviewers, and lines 51-55
get_prs_assigned_to_reviewers ==
    /\ pc = "idle"
    /\ call' = "get_prs_assigned_to_reviewers"
    /\ FrameGone
    /\ page_number' = 1
    /\ reviewer_to_assigned_prs' = NoMapping
    /\ clock' = RunHour * TicksPerHour
    /\ last_request' = NoRequest
    /\ pulls_page' = 0
    /\ stale' = (reviewer_to_assigned_prs # NoMapping)
    /\ returned' = <<>>
    /\ \/ /\ ~check_token
          /\ pc' = "idle"
          /\ outcome' = "config_error"
          /\ wait_hours' = 0
       \/ /\ check_token
          /\ pc' = "list"
          /\ outcome' = "running"
          /\ \E w \in WaitHours : wait_hours' = w
    /\ UNCHANGED <<_TOKEN, given, uvars>>

\* the listing loop without line 74: the page is filtered with the timeline
\* of none of its pull requests read
FetchPrPage_no_update ==
    /\ pc = "list"
    /\ \/ /\ last_request' = Request("pulls", 0, page_number, "error")
          /\ raise_for_status
       \/ /\ last_request' = Request("pulls", 0, page_number, "ok")
          /\ pc' = "idle"
          /\ outcome' = "returned"
          /\ returned' = <<reviewer_to_assigned_prs>>
          /\ UNCHANGED <<page_number, prs, pull_requests, pr_i, tl_page_number,
                         reviewer_to_assigned_prs, timeline, tl_count, tl_pr,
                         read_at, paginated>>
       \/ /\ Len(prs) < MaxPrs
          /\ \E pr_subset \in PrLists(Len(prs), MaxPrs - Len(prs)) \ {<<>>} :
               /\ prs' = prs \o [i \in DOMAIN pr_subset |->
                                    from_github_response(pr_subset[i])]
               /\ pull_requests' = [i \in DOMAIN pr_subset |-> Len(prs) + i]
               /\ paginated' = paginated \o [i \in DOMAIN pr_subset |-> 0]
          /\ last_request' = Request("pulls", 0, page_number, "ok")
          /\ page_number' = page_number + 1
          /\ pr_i' = 1
          /\ tl_page_number' = 1
          /\ pc' = "filter"
          /\ UNCHANGED <<outcome, returned, reviewer_to_assigned_prs, timeline,
                         tl_count, tl_pr, read_at>>
    /\ pulls_page' = page_number
    /\ UNCHANGED <<_TOKEN, given, call, wait_hours, clock, stale, uvars>>

\* the listing loop without line 68: the same page is requested again
FetchPrPage_same_page ==
    /\ pc = "list"
    /\ \/ /\ last_request' = Request("pulls", 0, page_number, "error")
          /\ raise_for_status
       \/ /\ last_request' = Request("pulls", 0, page_number, "ok")
          /\ pc' = "idle"
          /\ outcome' = "returned"
          /\ returned' = <<reviewer_to_assigned_prs>>
          /\ UNCHANGED <<page_number, prs, pull_requests, pr_i, tl_page_number,
                         reviewer_to_assigned_prs, timeline, tl_count, tl_pr,
                         read_at, paginated>>
       \/ /\ Len(prs) < MaxPrs
          /\ \E pr_subset \in PrLists(Len(prs), MaxPrs - Len(prs)) \ {<<>>} :
               /\ prs' = prs \o [i \in DOMAIN pr_subset |->
                                    from_github_response(pr_subset[i])]
               /\ pull_requests' = [i \in DOMAIN pr_subset |-> Len(prs) + i]
               /\ paginated' = paginated \o [i \in DOMAIN pr_subset |-> 0]
          /\ last_request' = Request("pulls", 0, page_number, "ok")
          /\ page_number' = page_number
          /\ pr_i' = 1
          /\ tl_page_number' = 1
          /\ pc' = "timeline"
          /\ UNCHANGED <<outcome, returned, reviewer_to_assigned_prs, timeline,
                         tl_count, tl_pr, read_at>>
    /\ pulls_page' = page_number
    /\ UNCHANGED <<_TOKEN, given, call, wait_hours, clock, stale, uvars>>

\* get_prs_assigned_to_reviewers, lines 56-74: one turn of the listing loop
FetchPrPage ==
    /\ pc = "list"
    /\ \/ /\ last_request' = Request("pulls", 0, page_number, "error")
          /\ raise_for_status
       \/ /\ last_request' = Request("pulls", 0, page_number, "ok")
          /\ pc' = "idle"
          /\ outcome' = "returned"
          /\ returned' = <<reviewer_to_assigned_prs>>
          /\ UNCHANGED <<page_number, prs, pull_requests, pr_i, tl_page_number,
                         reviewer_to_assigned_prs, timeline, tl_count, tl_pr,
                         read_at, paginated>>
       \/ /\ Len(prs) < MaxPrs
          /\ \E pr_subset \in PrLists(Len(prs), MaxPrs - Len(prs)) \ {<<>>} :
               /\ prs' = prs \o [i \in DOMAIN pr_subset |->
                                    from_github_response(pr_subset[i])]
               /\ pull_requests' = [i \in DOMAIN pr_subset |-> Len(prs) + i]
               /\ paginated' = paginated \o [i \in DOMAIN pr_subset |-> 0]
          /\ last_request' = Request("pulls", 0, page_number, "ok")
          /\ page_number' = page_number + 1
          /\ pr_i' = 1
          /\ tl_page_number' = 1
          /\ pc' = "timeline"
          /\ UNCHANGED <<outcome, returned, reviewer_to_assigned_prs, timeline,
                         tl_count, tl_pr, read_at>>
    /\ pulls_page' = page_number
    /\ UNCHANGED <<_TOKEN, given, call, wait_hours, clock, stale, uvars>>

\* the "assigned" events, and the number of events, received so far for the
\* pull request at position k of prs
TimelineOf(k) == IF tl_pr = k THEN timeline ELSE {}

CountOf(k) == IF tl_pr = k THEN tl_count ELSE 0

Assigned(timeline_subset) ==
    {e \in Range(timeline_subset) : e.event = "assigned"}

\* update_assignee_timestamp, lines 105-123: one turn of the timeline loop
FetchTimelinePage ==
    /\ pc = "timeline"
    /\ LET k == pull_requests[pr_i]
           pull_request == prs[k]
       IN
       \/ /\ last_request' =
               Request("timeline", pull_request.number, tl_page_number, "error")
          /\ raise_for_status
       \/ /\ last_request' =
               Request("timeline", pull_request.number, tl_page_number, "ok")
          /\ timeline' = TimelineOf(k)
          /\ tl_count' = CountOf(k)
          /\ tl_pr' = k
          /\ tl_page_number' = 1
          /\ paginated' = [paginated EXCEPT ![k] = @ + 1]
          /\ IF pr_i < Len(pull_requests)
             THEN /\ pr_i' = pr_i + 1
                  /\ UNCHANGED <<pc, outcome, returned>>
             ELSE /\ pr_i' = 1
                  /\ IF call = "get_prs_assigned_to_reviewers"
                     THEN /\ pc' = "filter"
                          /\ UNCHANGED <<outcome, returned>>
                     ELSE /\ pc' = "idle"
                          /\ outcome' = "returned"
                          /\ returned' = <<>>
          /\ UNCHANGED <<prs, pull_requests, read_at, page_number,
                         reviewer_to_assigned_prs>>
       \/ /\ CountOf(k) < MaxEvents
          /\ \E timeline_subset \in
                  SeqsUpTo(TimelineEvents, MaxEvents - CountOf(k)) \ {<<>>} :
               LET r == ProcessEvents(pull_request, timeline_subset)
               IN  /\ prs' = [prs EXCEPT ![k] = r.pull_request]
                   /\ timeline' = TimelineOf(k) \cup Assigned(timeline_subset)
                   /\ tl_count' = CountOf(k) + Len(timeline_subset)
                   /\ IF r.error # None
                      THEN /\ pc' = "idle"
                           /\ outcome' = "error"
                           /\ UNCHANGED tl_page_number
                      ELSE /\ tl_page_number' = tl_page_number + 1
                           /\ UNCHANGED <<pc, outcome>>
          /\ last_request' =
               Request("timeline", pull_request.number, tl_page_number, "ok")
          /\ tl_pr' = k
          /\ UNCHANGED <<pr_i, returned, pull_requests, read_at, page_number,
                         reviewer_to_assigned_prs, paginated>>
    /\ UNCHANGED <<_TOKEN, given, call, wait_hours, clock, pulls_page, stale, uvars>>

\* the readings datetime.now can give from now on, one per reviewer
Readings(n) ==
    {nows \in [1..n -> ClockValues] :
        /\ \A j \in 1..n : nows[j] >= clock
        /\ \A i, j \in 1..n : i <= j => nows[i] <= nows[j]}

\* get_prs_assigned_to_reviewers, lines 75-83: one turn of the loop of line 75
FilterPr ==
    /\ pc = "filter"
    /\ LET k == pull_requests[pr_i]
           pull_request == prs[k]
       IN  IF ~is_reviewer_assigned(pull_request)
           THEN UNCHANGED <<reviewer_to_assigned_prs, clock, read_at>>
           ELSE \E nows \in Readings(Len(pull_request.assignees)) :
                  /\ reviewer_to_assigned_prs' =
                       FilterReviewers(reviewer_to_assigned_prs, pull_request,
                                       k, 1, nows, wait_hours)
                  /\ clock' = IF nows = <<>> THEN clock ELSE nows[Len(nows)]
                  /\ read_at' = read_at @@ (k :> nows)
    /\ IF pr_i < Len(pull_requests)
       THEN pr_i' = pr_i + 1 /\ pc' = "filter"
       ELSE pr_i' = 1 /\ pc' = "list"
    /\ timeline' = {}
    /\ tl_count' = 0
    /\ tl_pr' = 0
    /\ UNCHANGED <<_TOKEN, given, call, outcome, returned, wait_hours,
                   page_number, prs, pull_requests, tl_page_number, last_request,
                   pulls_page, paginated, stale, uvars>>

\* update_assignee_timestamp (lines 97-99) called by a client of the module
\* with a list of one pull request: it has no check_token around it
update_assignee_timestamp ==
    /\ pc = "idle"
    /\ call' = "update_assignee_timestamp"
    /\ \E pr_list \in PrLists(0, 1) \ {<<>>} :
         /\ prs' = [i \in DOMAIN pr_list |-> from_github_response(pr_list[i])]
         /\ pull_requests' = [i \in DOMAIN pr_list |-> i]
         /\ paginated' = [i \in DOMAIN pr_list |-> 0]
    /\ pc' = "timeline"
    /\ outcome' = "running"
    /\ page_number' = 1
    /\ pr_i' = 1
    /\ tl_page_number' = 1
    /\ reviewer_to_assigned_prs' = NoMapping
    /\ clock' = RunHour * TicksPerHour
    /\ timeline' = {}
    /\ tl_count' = 0
    /\ tl_pr' = 0
    /\ read_at' = <<>>
    /\ last_request' = NoRequest
    /\ pulls_page' = 0
    /\ stale' = FALSE
    /\ returned' = <<>>
    /\ wait_hours' = 0
    /\ UNCHANGED <<_TOKEN, given, uvars>>

\* check_token around create_discussion_comment
create_discussion_comment ==
    /\ pc = "idle"
    /\ call' = "create_discussion_comment"
    /\ FreshLocals
    /\ \/ /\ ~check_token
          /\ pc' = "idle"
          /\ outcome' = "config_error"
       \/ /\ check_token
          /\ pc' = "post"
          /\ outcome' = "running"
    /\ UNCHANGED <<_TOKEN, given, uvars>>

\* create_discussion_comment, lines 150-187: the first query is posted; its
\* answer is not checked (an error answer has no 'data': KeyError), and
\* category_id is a generator, which the second post cannot serialise
\* (TypeError), so that the call ends in an exception after one request
PostCategoryQuery ==
    /\ pc = "post"
    /\ \E status \in {"ok", "error"} :
         last_request' = Request("graphql", 0, 0, status)
    /\ pc' = "idle"
    /\ outcome' = "error"
    /\ UNCHANGED <<_TOKEN, given, call, returned, wait_hours, page_number, prs,
                   pull_requests, pr_i, tl_page_number, reviewer_to_assigned_prs,
                   clock, timeline, tl_count, tl_pr, read_at, pulls_page,
                   paginated, stale, uvars>>

\* ----------------------------------------------------- the objects alone
NoEvent == [event |-> None, assignee |-> [login |-> None],
            created_at |-> [hour |-> 0, tick |-> 0]]

Timestamps == {DEFAULT_TIMESTAMP} \cup {ParseTime(c) : c \in CreatedAts}

Called(op, j, timestamp, login, event) ==
    [op |-> op, j |-> j, timestamp |-> timestamp, login |-> login, event |-> event]

\* assignee.set_timestamp(timestamp) on the j-th assignee of the pull request
UnitSetTimestamp ==
    /\ Len(u_calls) < MaxCalls
    /\ UNCHANGED svars
    /\ \E j \in DOMAIN u_pr.assignees, t \in Timestamps :
         /\ u_pr' = [u_pr EXCEPT !.assignees[j] = set_timestamp(@, t)]
         /\ u_calls' = Append(u_calls, Called("set_timestamp", j, t, None, NoEvent))
    /\ u_ret' = None

\* __process_activity(pull_request, event)
UnitProcessActivity ==
    /\ Len(u_calls) < MaxCalls
    /\ UNCHANGED svars
    /\ \E event \in Events :
      LET r == __process_activity(u_pr, event)
      IN  /\ u_pr' = r.pull_request
          /\ u_ret' = r.error
          /\ u_calls' = Append(u_calls, Called("process_activity", 0, 0, None, event))

\* pull_request.is_reviewer_assigned()
UnitIsReviewerAssigned ==
    /\ Len(u_calls) < MaxCalls
    /\ UNCHANGED svars
    /\ u_ret' = is_reviewer_assigned(u_pr)
    /\ u_calls' = Append(u_calls, Called("is_reviewer_assigned", 0, 0, None, NoEvent))
    /\ UNCHANGED u_pr

\* the waits get_readable_waiting_time is asked to write: days, hours and a
\* rest under the hour, and one wait below zero (a timestamp ahead of the clock)
Elapsed ==
    {d * TicksPerDay + h * TicksPerHour + t :
        d \in 0..MaxDays, h \in {0, 1, 2, 3, HoursPerDay - 1},
        t \in {0, TicksPerHour - 1}} \cup {-1}

\* assignee.get_readable_waiting_time() on the j-th assignee, at time now
UnitGetReadableWaitingTime ==
    /\ Len(u_calls) < MaxCalls
    /\ UNCHANGED svars
    /\ \E j \in DOMAIN u_pr.assignees, e \in Elapsed :
         LET now == u_pr.assignees[j].timestamp + e
         IN  /\ u_ret' = get_readable_waiting_time(u_pr.assignees[j], now)
             /\ u_calls' = Append(u_calls,
                    Called("get_readable_waiting_time", j, now, None, NoEvent))
    /\ UNCHANGED u_pr

\* pull_request.get_assignee(user)
UnitGetAssignee ==
    /\ Len(u_calls) < MaxCalls
    /\ UNCHANGED svars
    /\ \E user \in EventLogins :
         /\ u_ret' = get_assignee(u_pr, user)
         /\ u_calls' = Append(u_calls, Called("get_assignee", 0, 0, user, NoEvent))
    /\ UNCHANGED u_pr

UnitNext ==
    \/ UnitSetTimestamp
    \/ UnitProcessActivity
    \/ UnitIsReviewerAssigned
    \/ UnitGetAssignee
    \/ UnitGetReadableWaitingTime

UnitIdle ==
    /\ u_pr = from_github_response(CHOOSE r \in PrRecords : r.assignees = <<>>)
    /\ u_calls = <<>>
    /\ u_ret = None

Init == ServiceInit /\ UnitIdle

InitUnit == ServiceInit /\ UnitInit

UnitSpec == InitUnit /\ [][UnitNext]_vars

Next ==
    \/ init_service
    \/ get_prs_assigned_to_reviewers
    \/ FetchPrPage
    \/ FetchTimelinePage
    \/ FilterPr
    \/ update_assignee_timestamp
    \/ create_discussion_comment
    \/ PostCategoryQuery

Spec == Init /\ [][Next]_vars

\* the state init_service(token) leaves when it is the first call made
RunInit ==
    /\ _TOKEN = CHOOSE t \in Tokens : TRUE
    /\ pc = "idle"
    /\ call = "init_service"
    /\ outcome = "returned"
    /\ returned = <<>>
    /\ wait_hours = 0
    /\ page_number = 1
    /\ prs = <<>>
    /\ pull_requests = <<>>
    /\ pr_i = 1
    /\ tl_page_number = 1
    /\ reviewer_to_assigned_prs = NoMapping
    /\ clock = RunHour * TicksPerHour
    /\ timeline = {}
    /\ tl_count = 0
    /\ tl_pr = 0
    /\ read_at = <<>>
    /\ last_request = NoRequest
    /\ pulls_page = 0
    /\ paginated = <<>>
    /\ stale = FALSE
    /\ given = _TOKEN
    /\ UnitIdle

\* the runs of the aggregator of an initialized service
RunNext ==
    \/ get_prs_assigned_to_reviewers
    \/ FetchPrPage
    \/ FetchTimelinePage
    \/ FilterPr

\* the interpreter goes on with a call until it returns or raises, and every
\* request is answered: a loop that can take its next turn takes it
RunSpec ==
    /\ RunInit
    /\ [][RunNext]_vars
    /\ WF_vars(FetchPrPage)
    /\ WF_vars(FetchTimelinePage)
    /\ WF_vars(FilterPr)

\* ------------------------------------------------- the claims, unit level
LastCall == u_calls[Len(u_calls)]

Names(pr) == {pr.assignees[i].name : i \in DOMAIN pr.assignees}

\* the values passed to set_timestamp on the j-th assignee in calls
SetValues(calls, j) ==
    {calls[i].timestamp :
        i \in {n \in DOMAIN calls : calls[n].op = "set_timestamp" /\ calls[n].j = j}}

\* the times of the "assigned" events of calls that name login
AssignedTimes(calls, login) ==
    {ParseTime(calls[i].event.created_at) :
        i \in {n \in DOMAIN calls : /\ calls[n].op = "process_activity"
                                    /\ calls[n].event.event = "assigned"
                                    /\ calls[n].event.assignee.login = login}}

NoCall(calls, op) == \A i \in DOMAIN calls : calls[i].op # op

\* one more call, of the given kind, has been made in this step
Made(op) ==
    /\ Len(u_calls') = Len(u_calls) + 1
    /\ u_calls'[Len(u_calls')].op = op

\* C1 as stated: over any sequence of set_timestamp calls the stored
\* timestamp never decreases from one call to the next, and it ends as the
\* maximum of the sentinel default and all the values passed.
C1_SetTimestampTakesMax ==
    [][Made("set_timestamp") =>
         LET j == u_calls'[Len(u_calls')].j
         IN  /\ u_pr'.assignees[j].timestamp >= u_pr.assignees[j].timestamp
             /\ NoCall(u_calls', "process_activity") =>
                  u_pr'.assignees[j].timestamp =
                    Max({DEFAULT_TIMESTAMP} \cup SetValues(u_calls', j))]_vars

\* C1 amended: set_timestamp stores the value it is passed as it is; it is
\* __process_activity that passes it the later of the stored and the event's
\* time, so that over any sequence of processed events the stored timestamp
\* never decreases from one event to the next and ends as the maximum of the
\* sentinel default and the times of the "assigned" events naming the assignee.
C1_ProcessActivityTakesMax ==
    [][/\ Made("set_timestamp") =>
            LET c == u_calls'[Len(u_calls')]
            IN  u_pr'.assignees[c.j].timestamp = c.timestamp
       /\ Made("process_activity") =>
            /\ \A j \in DOMAIN u_pr.assignees :
                 u_pr'.assignees[j].timestamp >= u_pr.assignees[j].timestamp
            /\ NoCall(u_calls', "set_timestamp") =>
                 \A j \in DOMAIN u_pr.assignees :
                   u_pr'.assignees[j].timestamp =
                     Max({DEFAULT_TIMESTAMP}
                         \cup AssignedTimes(u_calls', u_pr.assignees[j].name))]_vars

\* two events naming the first assignee were processed, the later one first,
\* and the timestamp is the later of the two
C1_Witness ==
    /\ Len(u_calls) = 2
    /\ u_calls[1].op = "process_activity" /\ u_calls[2].op = "process_activity"
    /\ u_calls[1].event.event = "assigned" /\ u_calls[2].event.event = "assigned"
    /\ Len(u_pr.assignees) >= 1
    /\ u_calls[1].event.assignee.login = u_pr.assignees[1].name
    /\ u_calls[2].event.assignee.login = u_pr.assignees[1].name
    /\ ParseTime(u_calls[1].event.created_at) > ParseTime(u_calls[2].event.created_at)
    /\ u_pr.assignees[1].timestamp = ParseTime(u_calls[1].event.created_at)

\* the pull request after the calls, made one after the other
RECURSIVE Replay(_, _)
Replay(pr, calls) ==
    IF calls = <<>> THEN pr
    ELSE LET c == Head(calls)
             next == IF c.op = "set_timestamp"
                     THEN [pr EXCEPT !.assignees[c.j] = set_timestamp(@, c.timestamp)]
                     ELSE IF c.op = "process_activity"
                     THEN __process_activity(pr, c.event).pull_request
                     ELSE pr
         IN  Replay(next, Tail(calls))

\* the pull request as from_github_response made it
Fresh(pr) ==
    [pr EXCEPT !.assignees = [i \in DOMAIN pr.assignees |-> Assignee(pr.assignees[i].name)]]

Perms(n) == {f \in [1..n -> 1..n] : \A i, j \in 1..n : f[i] = f[j] => i = j}

\* C5: reconciliation is idempotent and order-independent: whatever the
\* pull request was before a list of events was processed, processing the
\* list again, or having processed any permutation of it, gives every
\* assignee the timestamp that processing the list once gave.
C5_ReconcileIdempotent ==
    \A m \in 0..Len(u_calls) :
      (\A i \in (m + 1)..Len(u_calls) : u_calls[i].op = "process_activity") =>
        LET before == Replay(Fresh(u_pr), SubSeq(u_calls, 1, m))
            n == Len(u_calls) - m
            events == [i \in 1..n |-> u_calls[m + i].event]
        IN  /\ ProcessEvents(before, events).pull_request = u_pr
            /\ ProcessEvents(u_pr, events).pull_request = u_pr
            /\ ProcessEvents(u_pr, events \o events).pull_request = u_pr
            /\ \A f \in Perms(n) :
                 ProcessEvents(before, [i \in 1..n |-> events[f[i]]]).pull_request
                   = u_pr

\* two different times for the same assignee were processed, the later first
C5_Witness ==
    /\ Len(u_calls) >= 2
    /\ \E i \in 1..(Len(u_calls) - 1) :
         /\ u_calls[i].op = "process_activity"
         /\ u_calls[i + 1].op = "process_activity"
         /\ u_calls[i].event.event = "assigned"
         /\ u_calls[i + 1].event.event = "assigned"
         /\ u_calls[i].event.assignee.login \in Names(u_pr)
         /\ u_calls[i].event.assignee.login = u_calls[i + 1].event.assignee.login
         /\ ParseTime(u_calls[i].event.created_at)
              > ParseTime(u_calls[i + 1].event.created_at)
         /\ i + 1 = Len(u_calls)

\* C7: is_reviewer_assigned() is false exactly when the pull request has one
\* assignee and that assignee is the author; it is true for no assignee, for
\* one assignee who is not the author, and for two or more assignees, the
\* author among them or not.
C7_IsReviewerAssigned ==
    (u_calls # <<>> /\ LastCall.op = "is_reviewer_assigned") =>
      LET n == Len(u_pr.assignees)
      IN  /\ ~u_ret <=> (n = 1 /\ u_pr.assignees[1].name = u_pr.author)
          /\ n = 0 => u_ret
          /\ (n = 1 /\ u_pr.assignees[1].name # u_pr.author) => u_ret
          /\ n >= 2 => u_ret

\* is_reviewer_assigned() was called on a pull request with two assignees,
\* the author one of them
C7_Witness ==
    /\ u_calls # <<>>
    /\ LastCall.op = "is_reviewer_assigned"
    /\ Len(u_pr.assignees) = 2
    /\ u_pr.author \in Names(u_pr)
    /\ u_ret

\* C9: processing an "assigned" event whose login names no assignee of the
\* pull request raises nothing and leaves every assignee's timestamp as it was.
C9_UnknownAssigneeIgnored ==
    [][(/\ Made("process_activity")
        /\ u_calls'[Len(u_calls')].event.event = "assigned"
        /\ u_calls'[Len(u_calls')].event.assignee.login \notin Names(u_pr))
       => /\ u_ret' = None
          /\ \A j \in DOMAIN u_pr.assignees :
               u_pr'.assignees[j].timestamp = u_pr.assignees[j].timestamp
          /\ u_pr' = u_pr]_vars

\* an "assigned" event for a login that is no assignee was processed on a
\* pull request with assignees, all of them still at the sentinel
C9_Witness ==
    /\ u_calls # <<>>
    /\ LastCall.op = "process_activity"
    /\ LastCall.event.event = "assigned"
    /\ LastCall.event.assignee.login \notin Names(u_pr)
    /\ Len(u_pr.assignees) = 2
    /\ \A j \in DOMAIN u_pr.assignees : u_pr.assignees[j].timestamp = DEFAULT_TIMESTAMP

\* C10: processing an event of a kind other than "assigned" leaves every
\* assignee's timestamp as it was, and an "assigned" event changes the
\* timestamp of no assignee but the one it names.
C10_OnlyAssignedOnlyNamed ==
    [][Made("process_activity") =>
         LET event == u_calls'[Len(u_calls')].event
         IN  /\ event.event # "assigned" =>
                  \A j \in DOMAIN u_pr.assignees :
                    u_pr'.assignees[j].timestamp = u_pr.assignees[j].timestamp
             /\ event.event = "assigned" =>
                  \A j \in DOMAIN u_pr.assignees :
                    u_pr.assignees[j].name # event.assignee.login =>
                      u_pr'.assignees[j].timestamp = u_pr.assignees[j].timestamp
             /\ Cardinality({j \in DOMAIN u_pr.assignees :
                    u_pr'.assignees[j].timestamp # u_pr.assignees[j].timestamp}) <= 1
             /\ DOMAIN u_pr'.assignees = DOMAIN u_pr.assignees]_vars

\* an "unassigned" event naming an assignee, later than the assignee's
\* timestamp, was processed after an "assigned" one had moved another's
C10_Witness ==
    /\ Len(u_calls) = 2
    /\ u_calls[1].op = "process_activity" /\ u_calls[1].event.event = "assigned"
    /\ u_calls[2].op = "process_activity" /\ u_calls[2].event.event = "unassigned"
    /\ Len(u_pr.assignees) = 2
    /\ u_calls[1].event.assignee.login = u_pr.assignees[1].name
    /\ u_calls[2].event.assignee.login = u_pr.assignees[2].name
    /\ u_pr.assignees[1].timestamp = ParseTime(u_calls[1].event.created_at)
    /\ u_pr.assignees[2].timestamp = DEFAULT_TIMESTAMP


\* the count n written with its unit, in the plural when n is more than one
Counted(n, unit) == ToString(n) \o " " \o unit \o (IF n > 1 THEN "s" ELSE "")

\* C16: for a wait of d whole days and h whole hours more (0 <= h < 24,
\* d >= 0) get_readable_waiting_time returns the parts that are not zero,
\* days first, joined by ", ", each the count and "day" or "hour" with an "s"
\* exactly when the count is more than 1, and "" when the wait is under an
\* hour; the call changes no state, so the overdue decision is as before it.
C16_ReadableWaitingTime ==
    [][Made("get_readable_waiting_time") =>
         LET c == u_calls'[Len(u_calls')]
             delta == c.timestamp - u_pr.assignees[c.j].timestamp
         IN  /\ \A d \in 0..(MaxDays + 1), h \in 0..(HoursPerDay - 1),
                   t \in 0..(TicksPerHour - 1) :
                   delta = d * TicksPerDay + h * TicksPerHour + t =>
                     u_ret' = IF d = 0 /\ h = 0 THEN ""
                              ELSE IF h = 0 THEN Counted(d, "day")
                              ELSE IF d = 0 THEN Counted(h, "hour")
                              ELSE Counted(d, "day") \o ", " \o Counted(h, "hour")
             /\ delta = 2 * TicksPerDay + 3 * TicksPerHour => u_ret' = "2 days, 3 hours"
             /\ delta = TicksPerHour => u_ret' = "1 hour"
             /\ delta = TicksPerDay => u_ret' = "1 day"
             /\ (delta >= 0 /\ delta < TicksPerHour) => u_ret' = ""
             /\ u_pr' = u_pr
             /\ UNCHANGED svars
             /\ \A j \in DOMAIN u_pr.assignees, now \in ClockValues, hours \in WaitHours :
                  IsPendingReview(u_pr', u_pr'.assignees[j], now, hours)
                    <=> IsPendingReview(u_pr, u_pr.assignees[j], now, hours)]_vars

\* the waiting time of an assignee whose timestamp an "assigned" event has
\* set was written as "1 day, 1 hour", the wait being one tick short of 1 day
\* and 2 hours
C16_Witness ==
    /\ Len(u_calls) = 2
    /\ u_calls[1].op = "process_activity"
    /\ LastCall.op = "get_readable_waiting_time"
    /\ u_pr.assignees[LastCall.j].timestamp # DEFAULT_TIMESTAMP
    /\ LastCall.timestamp - u_pr.assignees[LastCall.j].timestamp
         = TicksPerDay + 2 * TicksPerHour - 1
    /\ u_ret = "1 day, 1 hour"


\* --------------------------------------------- the claims, service level
GetPrs == "get_prs_assigned_to_reviewers"

\* pull request k of prs is in the list of reviewer r in mapping
Listed(mapping, r, k) ==
    r \in DOMAIN mapping /\ \E i \in DOMAIN mapping[r] : mapping[r][i] = k

\* C2 as stated: a call of get_prs_assigned_to_reviewers,
\* update_assignee_timestamp or create_discussion_comment made while the
\* credential is not initialized ends in a configuration error, and no
\* request is ever sent while the credential is not initialized.
C2_NoRequestWithoutToken ==
    /\ (_TOKEN = None /\ pc = "idle"
           /\ call \in {GetPrs, "update_assignee_timestamp",
                        "create_discussion_comment"})
         => outcome = "config_error"
    /\ last_request # NoRequest => last_request.authorization # None

\* C3: when get_prs_assigned_to_reviewers has returned, pull request P is in
\* the list of reviewer r exactly when the listing returned P,
\* P.is_reviewer_assigned() is true, r names an assignee of P, r is not P's
\* author and the clock read for that assignee, less the assignee's
\* timestamp, is at least wait_hours hours.
C3_OverdueIff ==
    (call = GetPrs /\ outcome = "returned") =>
      LET mapping == returned[1]
      IN  /\ \A r \in DOMAIN mapping : \A i \in DOMAIN mapping[r] :
               mapping[r][i] \in DOMAIN prs
          /\ \A k \in DOMAIN prs : \A r \in EventLogins :
               Listed(mapping, r, k) <=>
                 /\ ~(Len(prs[k].assignees) = 1
                      /\ prs[k].assignees[1].name = prs[k].author)
                 /\ r # prs[k].author
                 /\ \E j \in DOMAIN prs[k].assignees :
                      /\ prs[k].assignees[j].name = r
                      /\ read_at[k][j] - prs[k].assignees[j].timestamp
                           >= wait_hours * TicksPerHour

\* a run returned in which one reviewer had waited exactly wait_hours hours
\* and is listed, and another one tick less and is not
C3_Witness ==
    /\ call = GetPrs /\ outcome = "returned"
    /\ \E k \in DOMAIN prs : \E j \in DOMAIN prs[k].assignees :
         /\ k \in DOMAIN read_at
         /\ read_at[k][j] - prs[k].assignees[j].timestamp = wait_hours * TicksPerHour
         /\ Listed(returned[1], prs[k].assignees[j].name, k)
    /\ \E k \in DOMAIN prs : \E j \in DOMAIN prs[k].assignees :
         /\ k \in DOMAIN read_at
         /\ prs[k].assignees[j].name # prs[k].author
         /\ read_at[k][j] - prs[k].assignees[j].timestamp
              = wait_hours * TicksPerHour - 1
         /\ ~Listed(returned[1], prs[k].assignees[j].name, k)

\* the timeline of the pull request at position k of prs has been read to
\* its empty page
TimelineDone(k) ==
    /\ k # 0
    /\ tl_pr = k
    /\ ~(pc = "timeline" /\ pull_requests[pr_i] = k)

\* C4: when update_assignee_timestamp has read the timeline of a pull
\* request to its end, every assignee's timestamp is the maximum of the
\* sentinel default and the created_at of the "assigned" events, of all the
\* pages, that name the assignee.
C4_TimestampIsLatestAssigned ==
    TimelineDone(tl_pr) =>
      \A j \in DOMAIN prs[tl_pr].assignees :
        prs[tl_pr].assignees[j].timestamp =
          Max({DEFAULT_TIMESTAMP} \cup
              {ParseTime(e.created_at) :
                 e \in {x \in timeline :
                          x.assignee.login = prs[tl_pr].assignees[j].name}})

\* a timeline of two pages of one event each was read to its end, both events
\* naming the same assignee at different times
C4_Witness ==
    /\ TimelineDone(tl_pr)
    /\ last_request.url = "timeline" /\ last_request.page = 3
    /\ \E e1 \in timeline, e2 \in timeline :
         /\ e1.assignee.login = e2.assignee.login
         /\ e1.assignee.login \in Names(prs[tl_pr])
         /\ ParseTime(e1.created_at) < ParseTime(e2.created_at)

\* C6: a response of the listing or of a timeline with a status that is not a
\* success, at whatever page, ends the run in an error: nothing is returned,
\* whatever was collected from the pages before, and the run issues no
\* request after it (the next request is that of another call).
C6_HttpErrorAborts ==
    [][/\ (call' \in {GetPrs, "update_assignee_timestamp"}
           /\ last_request'.status = "error")
          => /\ outcome' = "http_error"
             /\ pc' = "idle"
             /\ returned' = <<>>
       /\ outcome = "http_error"
          => /\ pc = "idle"
             /\ last_request' = NoRequest
             /\ reviewer_to_assigned_prs' = NoMapping]_vars

\* a run was aborted at the second page of the listing or later, with
\* pull requests already collected
C6_Witness ==
    /\ call = GetPrs
    /\ outcome = "http_error"
    /\ page_number >= 2
    /\ DOMAIN reviewer_to_assigned_prs # {}
    /\ returned = <<>>

\* C8: a pull request whose only assignee is its author is in no reviewer's
\* list, and at every point of a run no pull request is in the list of its
\* own author.
C8_NeverUnderAuthor ==
    (call = GetPrs /\ outcome \in {"running", "returned"}) =>
      \A k \in DOMAIN prs :
        /\ ~Listed(reviewer_to_assigned_prs, prs[k].author, k)
        /\ (Len(prs[k].assignees) = 1 /\ prs[k].assignees[1].name = prs[k].author)
             => \A r \in EventLogins : ~Listed(reviewer_to_assigned_prs, r, k)

\* a run has gone through a pull request assigned to its author alone, and
\* through one assigned to its author and another, who is listed for it
C8_Witness ==
    /\ call = GetPrs /\ outcome = "returned"
    /\ \E k \in DOMAIN prs :
         /\ Len(prs[k].assignees) = 1
         /\ prs[k].assignees[1].name = prs[k].author
    /\ \E k \in DOMAIN prs :
         /\ Len(prs[k].assignees) = 2
         /\ prs[k].author \in Names(prs[k])
         /\ \E r \in Logins : Listed(reviewer_to_assigned_prs, r, k)

\* C11: within a run, the timeline of every pull request of a page has been
\* read to its empty page before any pull request of that page is appended to
\* the result mapping; the timeline of each pull request is read to its end
\* exactly once per run; and the overdue decision for a pull request is taken
\* on the timestamps it has once its timeline is read, which do not change
\* afterwards.
C11_TimelinesBeforeMapping ==
    [][(call' = GetPrs /\ outcome' \in {"running", "returned"}) =>
         /\ \A k \in DOMAIN prs' :
              /\ paginated'[k] <= 1
              /\ (\E r \in EventLogins : Listed(reviewer_to_assigned_prs', r, k))
                   => paginated'[k] = 1
              /\ k \in DOMAIN read_at' => paginated'[k] = 1
              /\ outcome' = "returned" => paginated'[k] = 1
              /\ (k \in DOMAIN prs /\ paginated[k] = 1) => prs'[k] = prs[k]
         /\ (pc = "filter" /\ pc' # "idle") =>
              /\ \A i \in DOMAIN pull_requests :
                   paginated[pull_requests[i]] = 1
              /\ prs' = prs
              /\ paginated' = paginated]_vars

\* a run returned whose last page held two pull requests, both with
\* "assigned" events in their timelines and both in a reviewer's list
C11_Witness ==
    /\ call = GetPrs /\ outcome = "returned"
    /\ Len(pull_requests) = 2
    /\ \A i \in DOMAIN pull_requests :
         LET k == pull_requests[i]
         IN  /\ paginated[k] = 1
             /\ \E j \in DOMAIN prs[k].assignees :
                  /\ prs[k].assignees[j].timestamp # DEFAULT_TIMESTAMP
                  /\ Listed(returned[1], prs[k].assignees[j].name, k)

\* C12: both pagination loops request the pages 1, 2, 3, ... one after the
\* other, none skipped and none repeated, stop at the first empty page and
\* request no page after it; and, the listing and every timeline giving an
\* empty page in the end (here: after at most MaxPrs pull requests and
\* MaxEvents events), a run of get_prs_assigned_to_reviewers ends: it returns
\* the mapping, unless a request failed.
C12_PagesInOrderAndTermination ==
    /\ [][/\ pc = "list" =>
              /\ last_request'.url = "pulls"
              /\ last_request'.page = pulls_page + 1
              /\ pulls_page' = last_request'.page
              /\ (last_request'.status = "ok" /\ prs' = prs)
                   <=> (pc' = "idle" /\ outcome' = "returned")
              /\ outcome' = "returned" => returned' = <<reviewer_to_assigned_prs>>
              /\ outcome' = "http_error" => last_request'.status = "error"
          /\ pc = "timeline" =>
              LET k == pull_requests[pr_i]
              IN  /\ last_request'.url = "timeline"
                  /\ last_request'.number = prs[k].number
                  /\ last_request'.page =
                       IF tl_pr = k THEN last_request.page + 1 ELSE 1
                  /\ (last_request'.status = "ok" /\ tl_count' = CountOf(k))
                       <=> (pc' # "idle" /\ (pc' = "timeline" => pr_i' = pr_i + 1))
                  /\ outcome' = "http_error" => last_request'.status = "error"
          /\ pc = "filter" => last_request' = last_request
          /\ (pc = "idle" /\ call' = GetPrs) => last_request' = NoRequest]_vars
    /\ (call = GetPrs /\ outcome = "running")
         ~> (call = GetPrs /\ pc = "idle" /\ outcome \in {"returned", "http_error"})

\* a run returned after a listing of two pages with a pull request each and
\* an empty third one
C12_Witness ==
    /\ call = GetPrs /\ outcome = "returned"
    /\ last_request.url = "pulls" /\ last_request.page = 3
    /\ last_request.status = "ok"
    /\ Len(prs) = 2
    /\ returned = <<reviewer_to_assigned_prs>>

\* C13: in the result mapping the pull requests of each reviewer's list are
\* in discovery order (prs holds the pull requests in the order the listing
\* gave them, page after page): of two pull requests in the same list the one
\* discovered first comes first; and during a run a list only grows at its
\* end: no entry is removed or moved.
C13_DiscoveryOrder ==
    [][(call = GetPrs /\ outcome = "running") =>
         /\ \A r \in DOMAIN reviewer_to_assigned_prs :
              LET list == reviewer_to_assigned_prs[r]
              IN  /\ \A i, j \in DOMAIN list : list[i] < list[j] => i < j
                  /\ (call' = GetPrs /\ outcome' \in {"running", "returned"}) =>
                       /\ r \in DOMAIN reviewer_to_assigned_prs'
                       /\ Len(reviewer_to_assigned_prs'[r]) >= Len(list)
                       /\ SubSeq(reviewer_to_assigned_prs'[r], 1, Len(list)) = list
         /\ outcome' = "returned" =>
              /\ returned' = <<reviewer_to_assigned_prs>>
              /\ prs' = prs]_vars

\* a run returned with a reviewer's list of two pull requests, the first from
\* the first page of the listing and the second from the second page
C13_Witness ==
    /\ call = GetPrs /\ outcome = "returned"
    /\ Len(prs) = 2 /\ pull_requests = <<2>>
    /\ \E r \in DOMAIN returned[1] : returned[1][r] = <<1, 2>>

\* the mapping a run builds, from an empty one, out of the pull requests 1..k
\* of prs_, the clock readings read and the threshold hours
RECURSIVE MappingOf(_, _, _, _)
MappingOf(prs_, read, hours, k) ==
    IF k = 0 THEN NoMapping
    ELSE LET mapping == MappingOf(prs_, read, hours, k - 1)
         IN  IF is_reviewer_assigned(prs_[k])
             THEN FilterReviewers(mapping, prs_[k], k, 1, read[k], hours)
             ELSE mapping

\* C14: runs share no mutable state: whatever the call before left behind (a
\* mapping returned, or one half built by an aborted run), a run starts with
\* an empty mapping and no pull request, every pull request it constructs has
\* its assignees at the sentinel, and the mapping it returns is the function
\* MappingOf of its own pull requests, clock readings and threshold: so two
\* runs given the same responses, clock and threshold return equal mappings.
C14_RunsShareNothing ==
    [][/\ (pc = "idle" /\ call' = GetPrs) =>
            /\ reviewer_to_assigned_prs' = NoMapping
            /\ prs' = <<>>
            /\ read_at' = <<>>
            /\ page_number' = 1
            /\ returned' = <<>>
       /\ (call' = GetPrs /\ outcome' = "running") =>
            \A k \in DOMAIN prs' \ DOMAIN prs :
              \A j \in DOMAIN prs'[k].assignees :
                prs'[k].assignees[j].timestamp = DEFAULT_TIMESTAMP
       /\ (call' = GetPrs /\ outcome' = "returned") =>
            returned'[1] = MappingOf(prs', read_at', wait_hours', Len(prs'))]_vars

\* a run that started after a call that had left a mapping with entries
\* behind returned a mapping with entries
C14_Witness ==
    /\ call = GetPrs /\ outcome = "returned"
    /\ stale
    /\ returned[1] # NoMapping

\* the pull request with the timestamps of its assignees taken from other
WithTimestampsOf(pr, other) ==
    [pr EXCEPT !.assignees =
        [j \in DOMAIN pr.assignees |->
            [pr.assignees[j] EXCEPT !.timestamp = other.assignees[j].timestamp]]]

\* C15: once a PullRequest is constructed no step of the reconciler or of the
\* aggregator changes its url, number, author or title, nor which assignees
\* it has nor their order: all that changes of it during a call is the
\* timestamps of its assignees.
C15_OnlyTimestampsChange ==
    [][pc # "idle" =>
         \A k \in DOMAIN prs \cap DOMAIN prs' :
           /\ prs'[k].url = prs[k].url
           /\ prs'[k].number = prs[k].number
           /\ prs'[k].author = prs[k].author
           /\ prs'[k].title = prs[k].title
           /\ DOMAIN prs'[k].assignees = DOMAIN prs[k].assignees
           /\ \A j \in DOMAIN prs[k].assignees :
                prs'[k].assignees[j].name = prs[k].assignees[j].name
           /\ prs'[k] = WithTimestampsOf(prs[k], prs'[k])]_vars

\* a run returned with a pull request of two assignees whose timestamps the
\* reconciler has both moved off the sentinel, to different times
C15_Witness ==
    /\ call = GetPrs /\ outcome = "returned"
    /\ \E k \in DOMAIN prs :
         /\ Len(prs[k].assignees) = 2
         /\ prs[k].assignees[1].timestamp # DEFAULT_TIMESTAMP
         /\ prs[k].assignees[2].timestamp # DEFAULT_TIMESTAMP
         /\ prs[k].assignees[1].timestamp # prs[k].assignees[2].timestamp
         /\ prs[k] = WithTimestampsOf(from_github_response(
                [html_url |-> prs[k].url, number |-> prs[k].number,
                 title |-> prs[k].title, user |-> [login |-> prs[k].author],
                 assignees |-> <<[login |-> "alice"], [login |-> "bob"]>>]),
                prs[k])

\* C17: the credential is written by init_service alone: no step of the
\* aggregator, of the reconciler or of the discussion poster changes it; the
\* value every request carries is the one the last init_service that returned
\* was given; and init_service called without a token ends in an error and
\* leaves the credential, set or not, as it was.
C17_CredentialFrame ==
    [][/\ _TOKEN' # _TOKEN =>
            (pc = "idle" /\ call' = "init_service" /\ outcome' = "returned")
       /\ (pc = "idle" /\ call' = "init_service") =>
            /\ outcome' \in {"error", "returned"}
            /\ outcome' = "error" => (_TOKEN' = _TOKEN /\ given' = given)
            /\ outcome' = "returned" => (_TOKEN' = given' /\ given' \in Tokens)
       /\ pc \in {"list", "timeline", "post"} =>
            /\ last_request' # NoRequest
            /\ last_request'.authorization = given
            /\ _TOKEN' = _TOKEN
       /\ _TOKEN' = given']_vars

\* a run of the aggregator has sent the request for the second page of a
\* timeline, and it carries the token init_service was given
C17_Witness ==
    /\ call = GetPrs
    /\ last_request.url = "timeline" /\ last_request.page = 2
    /\ given \in Tokens
    /\ last_request.authorization = given
    /\ _TOKEN = given

\* C18: an assignee whom no "assigned" event of the timeline names keeps the
\* sentinel timestamp through reconciliation; and an assignee at the sentinel
\* who is not the author is listed for the pull request whenever the time
\* since the sentinel meets the threshold, which it does for every threshold
\* of WaitHours (the sentinel lies further back than any of them): at the
\* return every such assignee is in the mapping.
C18_SentinelIsOverdue ==
    /\ TimelineDone(tl_pr) =>
         \A j \in DOMAIN prs[tl_pr].assignees :
           (\A e \in timeline : e.assignee.login # prs[tl_pr].assignees[j].name)
             => prs[tl_pr].assignees[j].timestamp = DEFAULT_TIMESTAMP
    /\ (call = GetPrs /\ outcome \in {"running", "returned"}) =>
         \A k \in DOMAIN prs : \A j \in DOMAIN prs[k].assignees :
           LET reviewer == prs[k].assignees[j]
           IN  (/\ reviewer.timestamp = DEFAULT_TIMESTAMP
                /\ reviewer.name # prs[k].author) =>
                 /\ is_reviewer_assigned(prs[k])
                 /\ \A now \in ClockValues, w \in WaitHours :
                      now - DEFAULT_TIMESTAMP >= TimeDelta(w)
                 /\ k \in DOMAIN read_at =>
                      /\ read_at[k][j] - DEFAULT_TIMESTAMP >= TimeDelta(wait_hours)
                      /\ Listed(reviewer_to_assigned_prs, reviewer.name, k)
                 /\ outcome = "returned" =>
                      Listed(returned[1], reviewer.name, k)

\* a run with the longest threshold returned: of the two assignees of a pull
\* request the first, its author, has the time of an "assigned" event, and
\* the second, named by none and still at the sentinel, is listed
C18_Witness ==
    /\ call = GetPrs /\ outcome = "returned"
    /\ wait_hours = MaxWaitHours
    /\ \E k \in DOMAIN prs :
         /\ Len(prs[k].assignees) = 2
         /\ prs[k].assignees[1].timestamp # DEFAULT_TIMESTAMP
         /\ prs[k].assignees[1].name = prs[k].author
         /\ prs[k].assignees[2].timestamp = DEFAULT_TIMESTAMP
         /\ prs[k].assignees[2].name # prs[k].author
         /\ Listed(returned[1], prs[k].assignees[2].name, k)

\* C19: a pull request with no assignee is not skipped by the test of
\* is_reviewer_assigned (it goes through the loop of line 78, which has
\* nothing to go over) and adds no entry and no key to the mapping; and every
\* key of the mapping has a list that is not empty and names an assignee of
\* every pull request of its list.
C19_KeysAreListedAssignees ==
    /\ [](call = GetPrs /\ outcome \in {"running", "returned"} =>
            /\ \A k \in DOMAIN prs :
                 prs[k].assignees = <<>> =>
                   /\ is_reviewer_assigned(prs[k])
                   /\ \A r \in DOMAIN reviewer_to_assigned_prs :
                        ~Listed(reviewer_to_assigned_prs, r, k)
                   /\ outcome = "returned" => k \in DOMAIN read_at
            /\ \A r \in DOMAIN reviewer_to_assigned_prs :
                 /\ reviewer_to_assigned_prs[r] # <<>>
                 /\ \A i \in DOMAIN reviewer_to_assigned_prs[r] :
                      r \in Names(prs[reviewer_to_assigned_prs[r][i]])
            /\ outcome = "returned" => returned = <<reviewer_to_assigned_prs>>)
    /\ [][(pc = "filter" /\ prs[pull_requests[pr_i]].assignees = <<>>) =>
            /\ reviewer_to_assigned_prs' = reviewer_to_assigned_prs
            /\ pull_requests[pr_i] \in DOMAIN read_at']_vars

\* a run returned that took a pull request with no assignee through the loop
\* of line 78 and listed another one under a reviewer
C19_Witness ==
    /\ call = GetPrs /\ outcome = "returned"
    /\ \E k \in DOMAIN prs :
         /\ prs[k].assignees = <<>>
         /\ k \in DOMAIN read_at
         /\ read_at[k] = <<>>
    /\ DOMAIN returned[1] # {}

\* the listing gave no pull request twice, and no pull request has two
\* assignees of the same login
EachPrOnce ==
    /\ \A k1, k2 \in DOMAIN prs : prs[k1].number = prs[k2].number => k1 = k2
    /\ \A k \in DOMAIN prs : \A i, j \in DOMAIN prs[k].assignees :
         prs[k].assignees[i].name = prs[k].assignees[j].name => i = j

\* the assignees of pull request k of prs who are not its author and whose
\* wait, at the reading of the clock made for them, meets the threshold
Overdue(k) ==
    IF k \notin DOMAIN read_at THEN {}
    ELSE {j \in DOMAIN prs[k].assignees :
            /\ prs[k].assignees[j].name # prs[k].author
            /\ read_at[k][j] - prs[k].assignees[j].timestamp
                 >= TimeDelta(wait_hours)}

\* C20: when the listing has given each pull request once at most and the
\* logins of each pull request's assignees are distinct, no pull request is
\* twice in the list of a reviewer, and at the return a pull request with n
\* overdue assignees who are not its author is in n lists exactly.
C20_OncePerReviewer ==
    (call = GetPrs /\ outcome \in {"running", "returned"} /\ EachPrOnce) =>
      /\ \A r \in DOMAIN reviewer_to_assigned_prs :
           \A i, j \in DOMAIN reviewer_to_assigned_prs[r] :
             LET list == reviewer_to_assigned_prs[r]
             IN  (list[i] = list[j] \/ prs[list[i]].number = prs[list[j]].number)
                   => i = j
      /\ outcome = "returned" =>
           \A k \in DOMAIN prs :
             Cardinality({r \in DOMAIN returned[1] : Listed(returned[1], r, k)})
               = Cardinality(Overdue(k))

\* a run returned after a listing of two different pull requests, one with
\* two overdue assignees, neither its author, and in the lists of both, and
\* one with no overdue assignee and in no list
C20_Witness ==
    /\ call = GetPrs /\ outcome = "returned"
    /\ EachPrOnce
    /\ Len(prs) = 2
    /\ \E k \in DOMAIN prs :
         /\ Cardinality(Overdue(k)) = 2
         /\ Cardinality({r \in DOMAIN returned[1] : Listed(returned[1], r, k)}) = 2
    /\ \E k \in DOMAIN prs :
         /\ prs[k].assignees # <<>>
         /\ Overdue(k) = {}
         /\ \A r \in DOMAIN returned[1] : ~Listed(returned[1], r, k)


====
